---- MODULE Spec2Model ----
(***************************************************************************)
(* Model of the two event pipelines of capital-nature-ingest:              *)
(*   events/arlington.py  (Source A: paginated JSON API)                   *)
(*   events/patc.py       (Source B: HTML calendar crawl)                  *)
(*                                                                         *)
(* Text is modelled as a sequence of one-character strings.  Markup is     *)
(* modelled as lexed: the tags "<p>" and "</p>" are single elements of the *)
(* sequence, which is what the HTML parser makes of them.                  *)
(***************************************************************************)
EXTENDS Integers, Sequences, FiniteSets, TLC

VARIABLES
    \* parse_event_name applied once and twice (arlington.py)
    name_pc, event_name, name_once, name_twice,
    \* schematize_date applied to one value (arlington.py); pads_year is
    \* whether the platform's strftime zero-fills %Y
    date_pc, event_date, schematized_date, pads_year,
    \* get_arlington_events and main (arlington.py); get_log is the From
    \* offset of every GET issued, critical_log the number of critical messages
    fetch_pc, server_count, from_param, data, event_items, get_log, critical_log,
    fetch_result,
    \* schematize_events (arlington.py): its argument, the number of items
    \* the for statement has consumed, the list it builds, the SearchTerm of
    \* every backfill GET; emitted_from and search_from record the position in
    \* the argument of the item each record and each GET came from
    schema_pc, event_items_arg, item_idx, events, search_log, emitted_from, search_from,
    \* get_event_website (arlington.py): the normalized dates it is given, the
    \* items of the response to its GET, the number of GETs, its result
    website_pc, target_start, target_end, search_items, website_gets, website_result,
    \* main of patc.py: the anchors of the index page, the number of them the
    \* for statement has consumed, records, the path of every detail request;
    \* visited_from and record_from give the position of the anchor each
    \* request and each record came from
    crawl_pc, index_anchors, anchor_idx, records, request_log, visited_from, record_from

fetchVars == <<fetch_pc, server_count, from_param, data, event_items, get_log, critical_log,
               fetch_result>>
nameVars == <<name_pc, event_name, name_once, name_twice>>
dateVars == <<date_pc, event_date, schematized_date, pads_year>>
schemaVars == <<schema_pc, event_items_arg, item_idx, events, search_log, emitted_from,
                search_from>>
websiteVars == <<website_pc, target_start, target_end, search_items, website_gets,
                 website_result>>
crawlVars == <<crawl_pc, index_anchors, anchor_idx, records, request_log, visited_from,
               record_from>>
vars == <<nameVars, dateVars, fetchVars, schemaVars, websiteVars, crawlVars>>
notName == <<dateVars, fetchVars, schemaVars, websiteVars, crawlVars>>
notDate == <<nameVars, fetchVars, schemaVars, websiteVars, crawlVars>>
notFetch == <<nameVars, dateVars, schemaVars, websiteVars, crawlVars>>
notSchema == <<nameVars, dateVars, fetchVars, websiteVars, crawlVars>>
notWebsite == <<nameVars, dateVars, fetchVars, schemaVars, crawlVars>>
notCrawl == <<nameVars, dateVars, fetchVars, schemaVars, websiteVars>>

\* The value None: one element that is no character, so that it is no text.
NoneVal == <<"None">>

(***************************************************************************)
(* Text helpers: Python's str operations and re.sub on character sequences.*)
(***************************************************************************)
TagOpenP == "<p>"
TagCloseP == "</p>"
Tags == {TagOpenP, TagCloseP}
\* Elements whose code point is 128 or more.
NonAscii == {"U+00E9"}
Digits == {"0", "1", "2", "3", "4", "5", "6", "7", "8", "9"}

\* s[i:i+len(p)] == p
MatchAt(s, p, i) ==
    /\ i + Len(p) - 1 <= Len(s)
    /\ \A k \in 1..Len(p) : s[i + k - 1] = p[k]

\* p in s
Contains(s, p) == \E i \in 1..(Len(s) - Len(p) + 1) : MatchAt(s, p, i)

\* s.replace(old, new), from position i on: leftmost, non-overlapping.
RECURSIVE ReplaceFrom(_, _, _, _)
ReplaceFrom(s, old, new, i) ==
    IF i > Len(s) THEN <<>>
    ELSE IF MatchAt(s, old, i) THEN new \o ReplaceFrom(s, old, new, i + Len(old))
    ELSE <<s[i]>> \o ReplaceFrom(s, old, new, i + 1)

Replace(s, old, new) == ReplaceFrom(s, old, new, 1)

\* The first position at or after i that holds no space.
RECURSIVE RunEnd(_, _)
RunEnd(s, i) == IF i <= Len(s) /\ s[i] = " " THEN RunEnd(s, i + 1) ELSE i

\* re.sub('  +', repl, s): every run of two or more spaces becomes repl.
RECURSIVE SubSpacesFrom(_, _, _)
SubSpacesFrom(s, repl, i) ==
    IF i > Len(s) THEN <<>>
    ELSE IF s[i] = " " /\ RunEnd(s, i) >= i + 2
         THEN repl \o SubSpacesFrom(s, repl, RunEnd(s, i))
    ELSE <<s[i]>> \o SubSpacesFrom(s, repl, i + 1)

SubSpaces(s, repl) == SubSpacesFrom(s, repl, 1)

\* s.strip()
RECURSIVE LStrip(_)
LStrip(s) == IF s # <<>> /\ Head(s) = " " THEN LStrip(Tail(s)) ELSE s
RECURSIVE RStrip(_)
RStrip(s) ==
    IF s # <<>> /\ s[Len(s)] = " " THEN RStrip(SubSeq(s, 1, Len(s) - 1)) ELSE s
Strip(s) == RStrip(LStrip(s))

\* "".join(i for i in s if ord(i) < 128)
IsAscii(c) == c \notin NonAscii
AsciiOnly(s) == SelectSeq(s, IsAscii)

\* ''.join(c for c in s if c.isdigit())
IsDigit(c) == c \in Digits
DigitsOf(s) == SelectSeq(s, IsDigit)

(***************************************************************************)
(* bs4 on lexed markup: get_text() and find_all('p').                      *)
(***************************************************************************)
IsText(c) == c \notin Tags
GetText(html) == SelectSeq(html, IsText)

\* The position of the first element equal to c at or after i, or Len(s) + 1.
RECURSIVE IndexFrom(_, _, _)
IndexFrom(s, c, i) ==
    IF i > Len(s) \/ s[i] = c THEN i ELSE IndexFrom(s, c, i + 1)

\* The texts of the <p> elements from position i on, in document order.
RECURSIVE PTagsFrom(_, _)
PTagsFrom(html, i) ==
    LET open == IndexFrom(html, TagOpenP, i)
        close == IndexFrom(html, TagCloseP, open + 1)
    IN IF open > Len(html) THEN <<>>
       ELSE <<GetText(SubSeq(html, open + 1, close - 1))>>
                \o PTagsFrom(html, close + 1)

PTags(html) == PTagsFrom(html, 1)

SeeEventWebsiteDot ==
    <<"S", "e", "e", " ", "e", "v", "e", "n", "t", " ", "w", "e", "b", "s", "i", "t", "e", ".">>
ActivityHash == <<"A", "c", "t", "i", "v", "i", "t", "y", " ", "#">>

\* The loop of html_textraction over p_tags: text += p_text + ' '
RECURSIVE JoinParagraphs(_)
JoinParagraphs(p_tags) ==
    IF p_tags = <<>> THEN <<>>
    ELSE (IF Contains(Head(p_tags), ActivityHash) THEN <<>>
          ELSE Head(p_tags) \o <<" ">>) \o JoinParagraphs(Tail(p_tags))

html_textraction(html) ==
    LET text == IF html = <<>> THEN SeeEventWebsiteDot
                ELSE IF PTags(html) # <<>> THEN Strip(JoinParagraphs(PTags(html)))
                ELSE Strip(GetText(html))
    IN SubSpaces(text, <<" ">>)

(***************************************************************************)
(* parse_event_name                                                        *)
(***************************************************************************)
RIP == <<"R", "I", "P">>
RiP == <<"R", "i", "P">>
SepDash == <<" ", "-", " ">>
InvasivePlantRemoval ==
    <<"I", "n", "v", "a", "s", "i", "v", "e", " ", "P", "l", "a", "n", "t", " ", "R", "e", "m", "o", "v", "a", "l">>

parse_event_name(name) ==
    IF Contains(name, RIP) \/ Contains(name, RiP) \/ Contains(name, InvasivePlantRemoval)
    THEN IF Contains(name, InvasivePlantRemoval)
         THEN LET n1 == SubSpaces(AsciiOnly(name), <<>>)
                  n2 == Replace(Replace(Replace(n1, RiP, <<>>), SepDash, <<>>), RIP, <<>>)
              IN html_textraction(Strip(SubSpaces(n2, <<" ">>)))
         ELSE LET n1 == SubSpaces(AsciiOnly(name), <<>>)
                  n2 == Replace(Replace(Replace(n1, RiP, <<>>), RIP, <<>>), SepDash, <<>>)
                  n3 == n2 \o <<" ">> \o InvasivePlantRemoval
              IN html_textraction(Strip(SubSpaces(n3, <<" ">>)))
    ELSE html_textraction(name)

(***************************************************************************)
(* schematize_date: datetime.strptime(event_date, "%Y-%m-%dT%H:%M:%S")     *)
(* followed by datetime.strftime(datetime_obj, "%Y-%m-%d").                *)
(***************************************************************************)
NonZeroDigits == Digits \ {"0"}

\* The texts each directive of the format accepts (the regular expressions
\* strptime compiles the directives to).
MonthForms ==
    { <<"1", c>> : c \in {"0", "1", "2"} } \cup { <<"0", c>> : c \in NonZeroDigits }
        \cup { <<c>> : c \in NonZeroDigits }
DayForms ==
    { <<"3", c>> : c \in {"0", "1"} } \cup { <<a, c>> : a \in {"1", "2"}, c \in Digits }
        \cup { <<"0", c>> : c \in NonZeroDigits } \cup { <<c>> : c \in NonZeroDigits }
        \cup { <<" ", c>> : c \in NonZeroDigits }
HourForms ==
    { <<"2", c>> : c \in {"0", "1", "2", "3"} } \cup { <<a, c>> : a \in {"0", "1"}, c \in Digits }
        \cup { <<c>> : c \in Digits }
MinuteForms ==
    { <<a, c>> : a \in {"0", "1", "2", "3", "4", "5"}, c \in Digits } \cup { <<c>> : c \in Digits }
SecondForms ==
    { <<"6", c>> : c \in {"0", "1"} } \cup MinuteForms
IsYearForm(f) == Len(f) = 4 /\ \A i \in 1..4 : f[i] \in Digits

DigitVal(c) == CHOOSE n \in 0..9 : ToString(n) = c

\* int(text), a leading space skipped
RECURSIVE NumOf(_)
NumOf(f) ==
    IF f = <<>> THEN 0
    ELSE IF f[Len(f)] = " " THEN 0
    ELSE DigitVal(f[Len(f)]) + 10 * NumOf(SubSeq(f, 1, Len(f) - 1))

\* The first "T" or "t" at or after i (the match ignores case), or Len(s) + 1.
RECURSIVE IndexOfT(_, _)
IndexOfT(s, i) ==
    IF i > Len(s) \/ s[i] \in {"T", "t"} THEN i ELSE IndexOfT(s, i + 1)

\* The six fields of s under the format, as texts; a separator that is
\* missing leaves the fields after it empty.
DateFields(s) ==
    LET e1 == IndexFrom(s, "-", 1)
        e2 == IndexFrom(s, "-", e1 + 1)
        e3 == IndexOfT(s, e2 + 1)
        e4 == IndexFrom(s, ":", e3 + 1)
        e5 == IndexFrom(s, ":", e4 + 1)
    IN [Y |-> SubSeq(s, 1, e1 - 1),
        m |-> SubSeq(s, e1 + 1, e2 - 1),
        d |-> SubSeq(s, e2 + 1, e3 - 1),
        H |-> SubSeq(s, e3 + 1, e4 - 1),
        M |-> SubSeq(s, e4 + 1, e5 - 1),
        S |-> SubSeq(s, e5 + 1, Len(s)),
        seps |-> e5 <= Len(s)]

IsLeap(y) == (y % 4 = 0 /\ y % 100 # 0) \/ y % 400 = 0
DaysInMonth(y, m) ==
    IF m = 2 THEN (IF IsLeap(y) THEN 29 ELSE 28)
    ELSE IF m \in {4, 6, 9, 11} THEN 30 ELSE 31

\* strptime succeeds: the text matches the format and names a real instant.
StrptimeOk(s) ==
    LET f == DateFields(s)
    IN /\ f.seps
       /\ IsYearForm(f.Y) /\ f.m \in MonthForms /\ f.d \in DayForms
       /\ f.H \in HourForms /\ f.M \in MinuteForms /\ f.S \in SecondForms
       /\ NumOf(f.Y) >= 1
       /\ NumOf(f.d) <= DaysInMonth(NumOf(f.Y), NumOf(f.m))
       /\ NumOf(f.S) <= 59

\* n as decimal digits, zero-filled to width w
RECURSIVE Pad(_, _)
Pad(n, w) ==
    IF w <= 0 /\ n = 0 THEN <<>>
    ELSE Pad(n \div 10, w - 1) \o <<ToString(n % 10)>>

\* strftime(datetime_obj, "%Y-%m-%d"); the C library decides whether %Y
\* zero-fills a year below 1000.
Strftime(y, m, d, pads) ==
    Pad(y, IF pads THEN 4 ELSE 1) \o <<"-">> \o Pad(m, 2) \o <<"-">> \o Pad(d, 2)

\* strptime raises TypeError, which the except clause does not name.
schematize_date_raises(date) == date = NoneVal

\* The value schematize_date returns when it returns.
schematize_date(date, pads) ==
    IF StrptimeOk(date)
    THEN LET f == DateFields(date)
         IN Strftime(NumOf(f.Y), NumOf(f.m), NumOf(f.d), pads)
    ELSE <<>>

DateYears == { <<"2", "0", "1", "9">>, <<"2", "0", "2", "0">>, <<"0", "9", "9", "9">>,
               <<"0", "0", "0", "0">>, <<"1", "9">> }
DateMonths == { <<"0", "1">>, <<"0", "2">>, <<"1", "2">>, <<"1", "3">>, <<"2">> }
DateDays == { <<"2", "5">>, <<"2", "9">>, <<"3", "0">>, <<"5">> }
DateSeps == { "T", "t", " " }
DateTimes ==
    { <<"0", "0", ":", "0", "0", ":", "0", "0">>, <<"2", "3", ":", "5", "9", ":", "5", "9">>,
      <<"2", "4", ":", "0", "0", ":", "0", "0">>, <<"0", ":", "0", ":", "0">>,
      <<"0", "0", ":", "0", "0", ":", "6", "0">>, <<"0", "0", ":", "0", "0">> }

DateInputs ==
    { y \o <<"-">> \o m \o <<"-">> \o d \o <<sep>> \o t :
        y \in DateYears, m \in DateMonths, d \in DateDays, sep \in DateSeps, t \in DateTimes }
    \cup { NoneVal, <<>>, <<"2", "0", "1", "9", "-", "0", "1", "-", "2", "5">> }

DateIdle ==
    /\ date_pc = "idle"
    /\ event_date = <<>>
    /\ schematized_date = <<>>
    /\ pads_year = FALSE

DateInit ==
    /\ date_pc = "start"
    /\ event_date \in DateInputs
    /\ schematized_date = <<>>
    /\ pads_year \in BOOLEAN

\* schematize_date returns the date, or '' after except ValueError
SchematizeDateReturns ==
    /\ date_pc = "start"
    /\ ~schematize_date_raises(event_date)
    /\ schematized_date' = schematize_date(event_date, pads_year)
    /\ date_pc' = "returned"
    /\ UNCHANGED <<event_date, pads_year, notDate>>

\* schematize_date lets the TypeError of strptime through
SchematizeDateRaises ==
    /\ date_pc = "start"
    /\ schematize_date_raises(event_date)
    /\ date_pc' = "raised"
    /\ UNCHANGED <<event_date, schematized_date, pads_year, notDate>>

DateNext == SchematizeDateReturns \/ SchematizeDateRaises

(***************************************************************************)
(* get_arlington_events and main (arlington.py): the paginated fetch       *)
(* against a server that holds server_count items, numbered from 1.        *)
(***************************************************************************)
\* Size=5 in the request's query string: the most items a response holds.
Size == 5
\* from_param += 5
FromStep == 5
\* The largest total the server reports.
MaxCount == 16

Min(a, b) == IF a < b THEN a ELSE b

\* The body of the response to a GET with From=offset: r.json()
Response(n, offset) ==
    [count |-> n,
     items |-> [i \in 1..(IF offset >= n THEN 0 ELSE Min(Size, n - offset)) |-> offset + i]]

FetchIdle ==
    /\ fetch_pc = "idle"
    /\ server_count = 0
    /\ from_param = 0
    /\ data = Response(0, 0)
    /\ event_items = <<>>
    /\ get_log = <<>>
    /\ critical_log = 0
    /\ fetch_result = [kind |-> "unset", list |-> <<>>]

FetchInit ==
    /\ fetch_pc = "get_first"
    /\ server_count \in 0..MaxCount
    /\ from_param = 0
    /\ data = Response(0, 0)
    /\ event_items = <<>>
    /\ get_log = <<>>
    /\ critical_log = 0
    /\ fetch_result = [kind |-> "unset", list |-> <<>>]

\* r = requests.get(uri); data = r.json(); count = data['count']
FirstRequest ==
    /\ fetch_pc = "get_first"
    /\ get_log' = Append(get_log, from_param)
    /\ data' = Response(server_count, from_param)
    /\ fetch_pc' = "loop"
    /\ UNCHANGED <<server_count, from_param, event_items, critical_log, fetch_result, notFetch>>

\* except Exception: logger.critical(...); return
FirstRequestFails ==
    /\ fetch_pc = "get_first"
    /\ get_log' = Append(get_log, from_param)
    /\ critical_log' = critical_log + 1
    /\ fetch_result' = [kind |-> "None", list |-> <<>>]
    /\ fetch_pc' = "fetched"
    /\ UNCHANGED <<server_count, from_param, data, event_items, notFetch>>

\* while from_param < count, from_param == 0: the items of the first response
LoopFirstPage ==
    /\ fetch_pc = "loop"
    /\ from_param < data.count
    /\ from_param = 0
    /\ event_items' = event_items \o data.items
    /\ from_param' = from_param + FromStep
    /\ UNCHANGED <<fetch_pc, server_count, data, get_log, critical_log, fetch_result, notFetch>>

\* LoopNextPage with the request built once, before the loop: every GET
\* carries From=0.
LoopNextPageStaleUri ==
    /\ fetch_pc = "loop"
    /\ from_param < data.count
    /\ from_param # 0
    /\ get_log' = Append(get_log, 0)
    /\ data' = [count |-> data.count, items |-> Response(server_count, 0).items]
    /\ event_items' = event_items \o Response(server_count, 0).items
    /\ from_param' = from_param + FromStep
    /\ UNCHANGED <<fetch_pc, server_count, critical_log, fetch_result, notFetch>>

\* while from_param < count, from_param != 0: one more GET.  The loop
\* condition reads count, which the first response set.
LoopNextPage ==
    /\ fetch_pc = "loop"
    /\ from_param < data.count
    /\ from_param # 0
    /\ get_log' = Append(get_log, from_param)
    /\ data' = [count |-> data.count, items |-> Response(server_count, from_param).items]
    /\ event_items' = event_items \o Response(server_count, from_param).items
    /\ from_param' = from_param + FromStep
    /\ UNCHANGED <<fetch_pc, server_count, critical_log, fetch_result, notFetch>>

\* requests.get raises inside the loop: nothing catches it
LoopRequestFails ==
    /\ fetch_pc = "loop"
    /\ from_param < data.count
    /\ from_param # 0
    /\ get_log' = Append(get_log, from_param)
    /\ fetch_pc' = "raised"
    /\ UNCHANGED <<server_count, from_param, data, event_items, critical_log, fetch_result, notFetch>>

\* return event_items
LoopExit ==
    /\ fetch_pc = "loop"
    /\ ~(from_param < data.count)
    /\ fetch_result' = [kind |-> "list", list |-> event_items]
    /\ fetch_pc' = "fetched"
    /\ UNCHANGED <<server_count, from_param, data, event_items, get_log, critical_log, notFetch>>

\* main: events = schematize_events(event_items); the for statement
\* iterates event_items, and None is not iterable
MainSchematize ==
    /\ fetch_pc = "fetched"
    /\ fetch_pc' = IF fetch_result.kind = "None" THEN "main_raised" ELSE "schematize"
    /\ UNCHANGED <<server_count, from_param, data, event_items, get_log, critical_log,
                   fetch_result, notFetch>>

FetchNext ==
    \/ FirstRequest
    \/ FirstRequestFails
    \/ LoopFirstPage
    \/ LoopNextPage
    \/ LoopRequestFails
    \/ LoopExit
    \/ MainSchematize

(***************************************************************************)
(* get_event_website and schematize_events (arlington.py)                  *)
(***************************************************************************)
TaskForce == <<"T", "a", "s", "k", " ", "F", "o", "r", "c", "e">>
ForestryCommission == <<"F", "o", "r", "e", "s", "t", "r", "y", " ", "C", "o", "m", "m", "i", "s", "s", "i", "o", "n">>
EarthProductsYard == <<"E", "a", "r", "t", "h", " ", "P", "r", "o", "d", "u", "c", "t", "s", " ", "Y", "a", "r", "d">>
Library == <<"L", "i", "b", "r", "a", "r", "y">>
AmericaNewYork == <<"A", "m", "e", "r", "i", "c", "a", "/", "N", "e", "w", "_", "Y", "o", "r", "k">>
ArlingtonParks == <<"A", "r", "l", "i", "n", "g", "t", "o", "n", " ", "P", "a", "r", "k", "s">>

\* The scan of get_event_website over the items of the search response:
\* the first item whose two normalized dates equal the target's, else None;
\* schematize_date raising ends the scan.
RECURSIVE ScanItems(_, _, _, _)
ScanItems(items, start_date, end_date, pads) ==
    IF items = <<>> THEN [kind |-> "return", value |-> NoneVal]
    ELSE LET item == Head(items)
         IN IF schematize_date_raises(item.eventStartDate)
                \/ schematize_date_raises(item.eventEndDate)
            THEN [kind |-> "raise", value |-> NoneVal]
            ELSE IF start_date = schematize_date(item.eventStartDate, pads)
                    /\ end_date = schematize_date(item.eventEndDate, pads)
                 THEN [kind |-> "return", value |-> item.eventUrlText]
                 ELSE ScanItems(Tail(items), start_date, end_date, pads)

\* get_event_website, given the items of the response to its GET
get_event_website(items, start_date, end_date, pads) ==
    ScanItems(items, start_date, end_date, pads)

\* if 'Task Force' in event_name or 'Forestry Commission' in event_name
NameFiltered(name) == Contains(name, TaskForce) \/ Contains(name, ForestryCommission)

\* if venue == 'Earth Products Yard' or 'Library' in venue or not venue
VenueFiltered(venue) ==
    venue = EarthProductsYard \/ Contains(venue, Library) \/ venue = <<>>

\* event_cost with the two tests in the other order: a cost description
\* wins over the free-of-charge flag.
event_cost_description_first(event_item) ==
    IF event_item.eventCostDsc # <<>> THEN DigitsOf(event_item.eventCostDsc)
    ELSE IF event_item.freeOfChargeInd THEN <<"0">>
    ELSE <<>>

\* The cost branch of schematize_events
event_cost(event_item) ==
    IF event_item.freeOfChargeInd THEN <<"0">>
    ELSE IF event_item.eventCostDsc # <<>> THEN DigitsOf(event_item.eventCostDsc)
    ELSE <<>>

\* The dict schematize_events appends
EventRecord(event_item, name, start_date, end_date, website, venue) ==
    ("Event Start Date" :> start_date) @@ ("Event End Date" :> end_date)
    @@ ("Event Start Time" :> event_item.eventStartTime)
    @@ ("Event End Time" :> event_item.eventEndTime)
    @@ ("Event Website" :> website) @@ ("Event Name" :> name)
    @@ ("Event Venue Name" :> venue) @@ ("Event Cost" :> event_cost(event_item))
    @@ ("Event Description" :> html_textraction(event_item.eventDsc))
    @@ ("Timezone" :> AmericaNewYork) @@ ("Event Organizers" :> ArlingtonParks)
    @@ ("Event Currency Symbol" :> <<"$">>) @@ ("All Day Event" :> FALSE)
    @@ ("Event Category" :> <<>>)

\* Payload values.
BirdWalk == <<"B", "i", "r", "d", " ", "W", "a", "l", "k">>
TaskForceMeeting == <<"T", "a", "s", "k", " ", "F", "o", "r", "c", "e", " ", "M", "e", "e", "t", "i", "n", "g">>
ForestryCommissionMtg == <<"U", "r", "b", "a", "n", " ", "F", "o", "r", "e", "s", "t", "r", "y", " ", "C", "o", "m", "m", "i", "s", "s", "i", "o", "n">>
RIPWalk == <<"R", "I", "P", " ", "W", "a", "l", "k">>
ParkName == <<"L", "o", "n", "g", " ", "B", "r", "a", "n", "c", "h", " ", "P", "a", "r", "k">>
CentralLibrary == <<"A", "r", "l", "i", "n", "g", "t", "o", "n", " ", "C", "e", "n", "t", "r", "a", "l", " ", "L", "i", "b", "r", "a", "r", "y">>
ActivityOnly == <<"<p>">> \o ActivityHash \o <<"7", "</p>">>
Url1 == <<"h", "t", "t", "p", ":", "/", "/", "a">>
Url2 == <<"h", "t", "t", "p", ":", "/", "/", "b">>
D1 == <<"2", "0", "1", "9", "-", "0", "1", "-", "2", "5", "T", "0", "0", ":", "0", "0", ":", "0", "0">>
D1b == <<"2", "0", "1", "9", "-", "0", "1", "-", "2", "5", "T", "1", "0", ":", "3", "0", ":", "0", "0">>
D2 == <<"2", "0", "1", "9", "-", "0", "1", "-", "2", "6", "T", "0", "0", ":", "0", "0", ":", "0", "0">>
DateOnly == <<"2", "0", "1", "9", "-", "0", "1", "-", "2", "5">>
Nine == <<"0", "9", ":", "0", "0", ":", "0", "0">>
Noon == <<"1", "2", ":", "0", "0", ":", "0", "0">>

BaseItem ==
    [eventName |-> BirdWalk, eventDsc |-> <<>>, eventStartDate |-> D1, eventEndDate |-> D2,
     eventStartTime |-> Nine, eventEndTime |-> Noon, eventUrlText |-> Url1,
     freeOfChargeInd |-> FALSE, eventCostDsc |-> <<>>, locationName |-> ParkName]

ItemNames == {BirdWalk, TaskForceMeeting, ForestryCommissionMtg, RIPWalk}
ItemLocations == {ParkName, EarthProductsYard, CentralLibrary, <<>>, ActivityOnly}
ItemUrls == {<<>>, Url1}
ItemCosts == { <<TRUE, <<"$", "5">>>>, <<FALSE, <<"$", "5", " ", "t", "o", " ", "$", "1", "0">>>>, <<FALSE, <<>>>>, <<FALSE, <<"F", "r", "e", "e">>>> }
ItemDates == { <<D1, D1>>, <<DateOnly, D1>>, <<NoneVal, D1>>, <<D1, NoneVal>> }

\* The event items schematize_events is given: every name, venue and
\* website combination, and every cost and date variant of the base item.
Items ==
    { [BaseItem EXCEPT !.eventName = n, !.eventUrlText = u] : n \in ItemNames, u \in ItemUrls }
    \cup { [BaseItem EXCEPT !.locationName = l, !.eventUrlText = u] :
             l \in ItemLocations, u \in ItemUrls }
    \cup { [BaseItem EXCEPT !.freeOfChargeInd = c[1], !.eventCostDsc = c[2],
                            !.eventDsc = ActivityOnly \o <<"<p>", "W", "a", "l", "k", "</p>">>] : c \in ItemCosts }
    \cup { [BaseItem EXCEPT !.eventStartDate = d[1], !.eventEndDate = d[2],
                            !.eventUrlText = <<>>] : d \in ItemDates }

ResultItem(start, end, url) ==
    [eventStartDate |-> start, eventEndDate |-> end, eventUrlText |-> url]

\* The search responses the backfill of schematize_events meets.
BackfillResponses ==
    { <<>>,
      <<ResultItem(D1, D2, Url2)>>,
      <<ResultItem(D1, D1, Url1), ResultItem(D1b, D2, Url2)>>,
      <<ResultItem(D1, NoneVal, Url1), ResultItem(D1, D2, Url2)>> }

\* The longest list schematize_events is given.
MaxItems == 2

SchemaIdle ==
    /\ schema_pc = "idle"
    /\ event_items_arg = <<>>
    /\ item_idx = 0
    /\ events = <<>>
    /\ search_log = <<>>
    /\ emitted_from = <<>>
    /\ search_from = <<>>

SchemaInit ==
    /\ schema_pc = "loop"
    /\ event_items_arg \in UNION { [1..n -> Items] : n \in 0..MaxItems }
    /\ item_idx = 0
    /\ events = <<>>
    /\ search_log = <<>>
    /\ emitted_from = <<>>
    /\ search_from = <<>>

\* The item the for statement is at, and what the loop body computes of it
\* before the website.  Every payload date here has a year of four
\* significant digits, so the value of pads_year does not change a result.
CurItem == event_items_arg[item_idx + 1]
CurName == parse_event_name(CurItem.eventName)
CurStart == schematize_date(CurItem.eventStartDate, pads_year)
CurEnd == schematize_date(CurItem.eventEndDate, pads_year)
CurVenue == html_textraction(CurItem.locationName)
CurDateRaises ==
    schematize_date_raises(CurItem.eventStartDate) \/ schematize_date_raises(CurItem.eventEndDate)
InLoop == schema_pc = "loop" /\ item_idx < Len(event_items_arg)

\* the name filter: continue
SchematizeDropName ==
    /\ InLoop
    /\ NameFiltered(CurName)
    /\ item_idx' = item_idx + 1
    /\ UNCHANGED <<schema_pc, event_items_arg, events, search_log, emitted_from, search_from,
                   notSchema>>

\* schematize_date raises on the item's start or end date
SchematizeItemDateRaises ==
    /\ InLoop
    /\ ~NameFiltered(CurName)
    /\ CurDateRaises
    /\ schema_pc' = "raised"
    /\ UNCHANGED <<event_items_arg, item_idx, events, search_log, emitted_from, search_from,
                   notSchema>>

\* the venue filter: continue
SchematizeDropVenue ==
    /\ InLoop
    /\ ~NameFiltered(CurName)
    /\ ~CurDateRaises
    /\ VenueFiltered(CurVenue)
    /\ item_idx' = item_idx + 1
    /\ UNCHANGED <<schema_pc, event_items_arg, events, search_log, emitted_from, search_from,
                   notSchema>>

\* the item has a website of its own: events.append(event)
SchematizeEmit ==
    /\ InLoop
    /\ ~NameFiltered(CurName)
    /\ ~CurDateRaises
    /\ ~VenueFiltered(CurVenue)
    /\ CurItem.eventUrlText # <<>>
    /\ events' = Append(events, EventRecord(CurItem, CurName, CurStart, CurEnd,
                                            CurItem.eventUrlText, CurVenue))
    /\ emitted_from' = Append(emitted_from, item_idx + 1)
    /\ item_idx' = item_idx + 1
    /\ UNCHANGED <<schema_pc, event_items_arg, search_log, search_from, notSchema>>

\* if not event_website: get_event_website(...) returns; events.append(event)
SchematizeBackfill ==
    /\ InLoop
    /\ ~NameFiltered(CurName)
    /\ ~CurDateRaises
    /\ ~VenueFiltered(CurVenue)
    /\ CurItem.eventUrlText = <<>>
    /\ \E items \in BackfillResponses :
          LET site == get_event_website(items, CurStart, CurEnd, pads_year)
          IN /\ site.kind = "return"
             /\ events' = Append(events, EventRecord(CurItem, CurName, CurStart, CurEnd,
                                                     site.value, CurVenue))
    /\ search_log' = Append(search_log, [SearchTerm |-> CurName])
    /\ search_from' = Append(search_from, item_idx + 1)
    /\ emitted_from' = Append(emitted_from, item_idx + 1)
    /\ item_idx' = item_idx + 1
    /\ UNCHANGED <<schema_pc, event_items_arg, notSchema>>

\* if not event_website: get_event_website(...) raises after its GET
SchematizeBackfillRaises ==
    /\ InLoop
    /\ ~NameFiltered(CurName)
    /\ ~CurDateRaises
    /\ ~VenueFiltered(CurVenue)
    /\ CurItem.eventUrlText = <<>>
    /\ \E items \in BackfillResponses :
          get_event_website(items, CurStart, CurEnd, pads_year).kind = "raise"
    /\ search_log' = Append(search_log, [SearchTerm |-> CurName])
    /\ search_from' = Append(search_from, item_idx + 1)
    /\ schema_pc' = "raised"
    /\ UNCHANGED <<event_items_arg, item_idx, events, emitted_from, notSchema>>

\* return events
SchematizeReturn ==
    /\ schema_pc = "loop"
    /\ item_idx = Len(event_items_arg)
    /\ schema_pc' = "returned"
    /\ UNCHANGED <<event_items_arg, item_idx, events, search_log, emitted_from, search_from,
                   notSchema>>

SchemaNext ==
    \/ SchematizeDropName
    \/ SchematizeItemDateRaises
    \/ SchematizeDropVenue
    \/ SchematizeEmit
    \/ SchematizeBackfill
    \/ SchematizeBackfillRaises
    \/ SchematizeReturn

(***************************************************************************)
(* get_event_website on its own: one call, for a target pair of normalized *)
(* dates and a search response.                                            *)
(***************************************************************************)
\* The longest search response.
MaxResults == 2

ResultItems ==
    { ResultItem(st, en, u) : st \in {D1, D1b, D2, DateOnly, NoneVal}, en \in {D1, D2, NoneVal},
                              u \in {Url1, Url2} }
SearchResponses == UNION { [1..n -> ResultItems] : n \in 0..MaxResults }

WebsiteIdle ==
    /\ website_pc = "idle"
    /\ target_start = <<>>
    /\ target_end = <<>>
    /\ search_items = <<>>
    /\ website_gets = 0
    /\ website_result = <<>>

WebsiteInit ==
    /\ website_pc = "start"
    /\ target_start \in { schematize_date(d, FALSE) : d \in {D1, DateOnly} }
    /\ target_end \in { schematize_date(d, FALSE) : d \in {D1, D2} }
    /\ search_items \in SearchResponses
    /\ website_gets = 0
    /\ website_result = <<>>

\* get_event_website returns a website or None
GetEventWebsiteReturns ==
    /\ website_pc = "start"
    /\ LET site == get_event_website(search_items, target_start, target_end, pads_year)
       IN /\ site.kind = "return"
          /\ website_result' = site.value
    /\ website_gets' = website_gets + 1
    /\ website_pc' = "returned"
    /\ UNCHANGED <<target_start, target_end, search_items, notWebsite>>

\* schematize_date raises on an item of the response
GetEventWebsiteRaises ==
    /\ website_pc = "start"
    /\ get_event_website(search_items, target_start, target_end, pads_year).kind = "raise"
    /\ website_gets' = website_gets + 1
    /\ website_pc' = "raised"
    /\ UNCHANGED <<target_start, target_end, search_items, website_result, notWebsite>>

WebsiteNext == GetEventWebsiteReturns \/ GetEventWebsiteRaises

(***************************************************************************)
(* patc.py: make_request_content, find_event_data and the crawl of main.   *)
(* A page is its status and, as the parser hands them over, the texts of   *)
(* its <th> elements and its <p> elements, each <p> the sequence of its    *)
(* children: text nodes, <strong> and <a> elements.                        *)
(***************************************************************************)
KEYWORDS == <<<<"S", "t", "a", "r", "t", " ", "T", "i", "m", "e">>, <<"S", "t", "a", "r", "t", " ", "D", "a", "t", "e">>, <<"E", "v", "e", "n", "t", " ", "C", "a", "t", "e", "g", "o", "r", "y">>, <<"w", "w", "w">>>>
KeyEventName == <<"E", "v", "e", "n", "t", " ", "N", "a", "m", "e">>
KeyDescription == <<"D", "e", "s", "c", "r", "i", "p", "t", "i", "o", "n">>
CalendarAspx == <<"c", "a", "l", "e", "n", "d", "a", "r", ".", "a", "s", "p", "x">>

TextNode(text) == [tag |-> "text", text |-> text, href |-> NoneVal]
Strong(text) == [tag |-> "strong", text |-> text, href |-> NoneVal]
Anchor(text, href) == [tag |-> "a", text |-> text, href |-> href]

\* para.getText()
RECURSIVE ParaText(_)
ParaText(para) == IF para = <<>> THEN <<>> ELSE Head(para).text \o ParaText(Tail(para))

\* para.findAll(tag)
FindAll(para, tag) == LET IsTag(c) == c.tag = tag IN SelectSeq(para, IsTag)

\* any([word + ":" in para.getText() for word in KEYWORDS])
HasKeyword(para) ==
    \E w \in 1..Len(KEYWORDS) : Contains(ParaText(para), KEYWORDS[w] \o <<":">>)

\* one as a plain first-match lookup: any further item is ignored.
one_takes_first(xs) ==
    IF Len(xs) >= 1 THEN [kind |-> "ok", value |-> xs[1]]
    ELSE [kind |-> "raise", error |-> "ValueError"]

\* mi.one(iterable): its only item, or ValueError
one(xs) ==
    IF Len(xs) = 1 THEN [kind |-> "ok", value |-> xs[1]]
    ELSE [kind |-> "raise", error |-> "ValueError"]

\* The position of the last c in s, or 0.
RECURSIVE LastIndexOf(_, _)
LastIndexOf(s, c) ==
    IF s = <<>> THEN 0
    ELSE IF s[Len(s)] = c THEN Len(s)
    ELSE LastIndexOf(SubSeq(s, 1, Len(s) - 1), c)

\* text.rpartition(":")[0]
BeforeLastColon(text) == SubSeq(text, 1, LastIndexOf(text, ":") - 1)

\* results[key] = value
DictSet(results, key, value) ==
    [k \in DOMAIN results \cup {key} |-> IF k = key THEN value ELSE results[k]]

\* value.encode("ascii", "ignore").decode().strip()
AsciiStrip(value) == Strip(AsciiOnly(value))

\* The body of the for statement of find_event_data for one paragraph:
\* the results after it, or the exception it raises.
ParaStep(results, para) ==
    IF ~HasKeyword(para) THEN [kind |-> "dict", results |-> results]
    ELSE LET header == one(FindAll(para, "strong"))
         IN IF header.kind = "raise" THEN [kind |-> "raise", error |-> header.error]
            ELSE LET category == BeforeLastColon(header.value.text)
                     last == para[Len(para)]
                     url_tag == one(FindAll(para, "a"))
                 IN IF category # KEYWORDS[4]
                    THEN [kind |-> "dict",
                          results |-> DictSet(results, category, AsciiStrip(last.text))]
                    ELSE IF url_tag.kind = "raise"
                    THEN [kind |-> "raise", error |-> url_tag.error]
                    ELSE IF url_tag.value.href = NoneVal
                    THEN [kind |-> "raise", error |-> "AttributeError"]
                    ELSE [kind |-> "dict",
                          results |-> DictSet(results, category, AsciiStrip(url_tag.value.href))]

\* for para in res.findAll("p"): ...
RECURSIVE ParaLoop(_, _)
ParaLoop(results, paras) ==
    IF paras = <<>> THEN [kind |-> "dict", results |-> results]
    ELSE LET step == ParaStep(results, Head(paras))
         IN IF step.kind = "raise" THEN step ELSE ParaLoop(step.results, Tail(paras))

\* find_event_data without its try statement: the IndexError of a page
\* without <th> or without <p> gets out.
find_event_data_uncaught(page) ==
    IF page.ths = <<>> \/ page.paras = <<>> THEN [kind |-> "raise", error |-> "IndexError"]
    ELSE ParaLoop((KeyEventName :> Strip(page.ths[Len(page.ths)]))
                      @@ (KeyDescription :> Strip(ParaText(page.paras[Len(page.paras)]))),
                  page.paras)

\* find_event_data, given the page make_request_content returned: None for
\* a page without <th> or without <p>, else the results or the exception
find_event_data(page) ==
    IF page.ths = <<>> \/ page.paras = <<>> THEN [kind |-> "None"]
    ELSE ParaLoop((KeyEventName :> Strip(page.ths[Len(page.ths)]))
                      @@ (KeyDescription :> Strip(ParaText(page.paras[Len(page.paras)]))),
                  page.paras)

\* posixpath.split(event_link)[-1]
PathTail(link) == SubSeq(link, LastIndexOf(link, "/") + 1, Len(link))

\* Paragraphs and pages of the site.
ParaStartDate == <<Strong(<<"S", "t", "a", "r", "t", " ", "D", "a", "t", "e", ":">>), TextNode(<<" ", "M", "a", "y", " ", "5", ",", " ", "2", "0", "1", "9">>)>>
ParaStartTime == <<Strong(<<"S", "t", "a", "r", "t", " ", "T", "i", "m", "e", ":">>), TextNode(<<" ", "9", ":", "0", "0", " ", "A", "M", " ">>)>>
ParaCategory == <<Strong(<<"E", "v", "e", "n", "t", " ", "C", "a", "t", "e", "g", "o", "r", "y", ":">>), TextNode(<<" ", "H", "i", "k", "e", "U+00E9">>)>>
ParaWww == <<Strong(<<"w", "w", "w", ":">>), Anchor(<<"m", "a", "p">>, <<"h", "t", "t", "p", ":", "/", "/", "x">>)>>
ParaTwoStrong ==
    <<Strong(<<"S", "t", "a", "r", "t", " ", "D", "a", "t", "e", ":">>), TextNode(<<" ", "M", "a", "y", " ", "5", " ">>), Strong(<<"S", "t", "a", "r", "t", " ", "T", "i", "m", "e", ":">>), TextNode(<<" ", "9", " ", "A", "M">>)>>
ParaNoStrong == <<TextNode(<<"S", "t", "a", "r", "t", " ", "D", "a", "t", "e", ":", " ", "M", "a", "y", " ", "5">>)>>
ParaTwoLinks == <<Strong(<<"w", "w", "w", ":">>), Anchor(<<"m", "a", "p">>, <<"h", "t", "t", "p", ":", "/", "/", "x">>), Anchor(<<"m", "o", "r", "e">>, <<"h", "t", "t", "p", ":", "/", "/", "y">>)>>
ParaNoHref == <<Strong(<<"w", "w", "w", ":">>), Anchor(<<"m", "a", "p">>, NoneVal)>>
ParaDescription == <<TextNode(<<"B", "r", "i", "n", "g", " ", "w", "a", "t", "e", "r", " ">>)>>

Page(ths, paras) == [status |-> 200, ths |-> ths, paras |-> paras]
PageFull ==
    Page(<<<<"C", "a", "l", "e", "n", "d", "a", "r">>, <<" ", "S", "p", "r", "i", "n", "g", " ", "H", "i", "k", "e">>>>, <<ParaStartDate, ParaStartTime, ParaWww, ParaDescription>>)
PagePlain == Page(<<<<"T", "r", "a", "i", "l", " ", "W", "o", "r", "k">>>>, <<ParaCategory, ParaDescription>>)
PageNoTh == Page(<<>>, <<ParaStartDate, ParaDescription>>)
PageNoP == Page(<<<<"T", "r", "a", "i", "l", " ", "W", "o", "r", "k">>>>, <<>>)
PageTwoStrong == Page(<<<<"T", "r", "a", "i", "l", " ", "W", "o", "r", "k">>>>, <<ParaCategory, ParaTwoStrong, ParaDescription>>)
PageNoStrong == Page(<<<<"T", "r", "a", "i", "l", " ", "W", "o", "r", "k">>>>, <<ParaNoStrong, ParaDescription>>)
PageTwoLinks == Page(<<<<"T", "r", "a", "i", "l", " ", "W", "o", "r", "k">>>>, <<ParaStartDate, ParaTwoLinks>>)
PageNoHref == Page(<<<<"T", "r", "a", "i", "l", " ", "W", "o", "r", "k">>>>, <<ParaNoHref, ParaDescription>>)
PageNotFound == [status |-> 404, ths |-> <<>>, paras |-> <<>>]
Pages == {PageFull, PagePlain, PageNoTh, PageNoP, PageTwoStrong, PageNoStrong, PageTwoLinks,
          PageNoHref, PageNotFound}

\* The anchors of the index page: the href of each (None when it has none)
\* and the page the site serves at the detail path made from it.
IndexAnchors ==
    { [href |-> h, page |-> PagePlain] :
        h \in {NoneVal, <<"a", "b", "o", "u", "t", ".", "a", "s", "p", "x">>, <<"C", "u", "s", "t", "o", "m", "/", "C", "a", "l", "e", "n", "d", "a", "r", ".", "a", "s", "p", "x", "?", "h", "k", "e", "y", "=", "9">>} }
    \cup { [href |-> <<"c", "a", "l", "e", "n", "d", "a", "r", ".", "a", "s", "p", "x", "?", "i", "d", "=", "1">>, page |-> pg] : pg \in Pages }
    \cup { [href |-> <<"/", "P", "A", "T", "C", "/", "C", "u", "s", "t", "o", "m", "/", "c", "a", "l", "e", "n", "d", "a", "r", ".", "a", "s", "p", "x", "?", "i", "d", "=", "2">>, page |-> PageFull] }

\* The most anchors the index page holds.
MaxAnchors == 3

CrawlIdle ==
    /\ crawl_pc = "idle"
    /\ index_anchors = <<>>
    /\ anchor_idx = 0
    /\ records = <<>>
    /\ request_log = <<>>
    /\ visited_from = <<>>
    /\ record_from = <<>>

CrawlInit ==
    /\ crawl_pc = "loop"
    /\ index_anchors \in UNION { [1..n -> IndexAnchors] : n \in 0..MaxAnchors }
    /\ anchor_idx = 0
    /\ records = <<>>
    /\ request_log = <<>>
    /\ visited_from = <<>>
    /\ record_from = <<>>

CurAnchor == index_anchors[anchor_idx + 1]
\* event.attrs.get("href", "")
CurLink == IF CurAnchor.href = NoneVal THEN <<>> ELSE CurAnchor.href
\* posixpath.join("Custom", url)
CurPath == <<"C", "u", "s", "t", "o", "m", "/">> \o PathTail(CurLink)
InCrawl == crawl_pc = "loop" /\ anchor_idx < Len(index_anchors)

\* an anchor that is no calendar link
CrawlPassAnchor ==
    /\ InCrawl
    /\ ~Contains(CurLink, CalendarAspx)
    /\ anchor_idx' = anchor_idx + 1
    /\ UNCHANGED <<crawl_pc, index_anchors, records, request_log, visited_from, record_from,
                   notCrawl>>

\* make_request_content: res.raise_for_status() raises
CrawlRequestFails ==
    /\ InCrawl
    /\ Contains(CurLink, CalendarAspx)
    /\ CurAnchor.page.status # 200
    /\ request_log' = Append(request_log, CurPath)
    /\ visited_from' = Append(visited_from, anchor_idx + 1)
    /\ crawl_pc' = "raised"
    /\ UNCHANGED <<index_anchors, anchor_idx, records, record_from, notCrawl>>

\* find_event_data returns None: the page is skipped
CrawlSkipPage ==
    /\ InCrawl
    /\ Contains(CurLink, CalendarAspx)
    /\ CurAnchor.page.status = 200
    /\ find_event_data(CurAnchor.page).kind = "None"
    /\ request_log' = Append(request_log, CurPath)
    /\ visited_from' = Append(visited_from, anchor_idx + 1)
    /\ anchor_idx' = anchor_idx + 1
    /\ UNCHANGED <<crawl_pc, index_anchors, records, record_from, notCrawl>>

\* find_event_data returns its results: records.append(data)
CrawlRecordPage ==
    /\ InCrawl
    /\ Contains(CurLink, CalendarAspx)
    /\ CurAnchor.page.status = 200
    /\ find_event_data(CurAnchor.page).kind = "dict"
    /\ records' = Append(records, find_event_data(CurAnchor.page).results)
    /\ record_from' = Append(record_from, anchor_idx + 1)
    /\ request_log' = Append(request_log, CurPath)
    /\ visited_from' = Append(visited_from, anchor_idx + 1)
    /\ anchor_idx' = anchor_idx + 1
    /\ UNCHANGED <<crawl_pc, index_anchors, notCrawl>>

\* find_event_data raises: nothing in main catches it
CrawlPageRaises ==
    /\ InCrawl
    /\ Contains(CurLink, CalendarAspx)
    /\ CurAnchor.page.status = 200
    /\ find_event_data(CurAnchor.page).kind = "raise"
    /\ request_log' = Append(request_log, CurPath)
    /\ visited_from' = Append(visited_from, anchor_idx + 1)
    /\ crawl_pc' = "raised"
    /\ UNCHANGED <<index_anchors, anchor_idx, records, record_from, notCrawl>>

\* the for statement of main ends: records goes on to the data frame
CrawlEnds ==
    /\ crawl_pc = "loop"
    /\ anchor_idx = Len(index_anchors)
    /\ crawl_pc' = "records_done"
    /\ UNCHANGED <<index_anchors, anchor_idx, records, request_log, visited_from, record_from,
                   notCrawl>>

CrawlNext ==
    \/ CrawlPassAnchor
    \/ CrawlRequestFails
    \/ CrawlSkipPage
    \/ CrawlRecordPage
    \/ CrawlPageRaises
    \/ CrawlEnds

\* The pieces event names are assembled from, and how many of them.
MaxPieces == 3
NamePieces ==
    { <<"R">>, <<"I", "P">>, RIP, RiP, SepDash, <<" ">>, <<"W", "a", "l", "k">>,
      <<"U+00E9">>, InvasivePlantRemoval }

RECURSIVE Concat(_)
Concat(ps) == IF ps = <<>> THEN <<>> ELSE Head(ps) \o Concat(Tail(ps))

NameInputs ==
    { Concat(ps) : ps \in UNION { [1..n -> NamePieces] : n \in 0..MaxPieces } }

NameIdle ==
    /\ name_pc = "idle"
    /\ event_name = <<>>
    /\ name_once = <<>>
    /\ name_twice = <<>>

NameInit ==
    /\ name_pc = "start"
    /\ event_name \in NameInputs
    /\ name_once = <<>>
    /\ name_twice = <<>>

\* event_name = parse_event_name(event_name)
ParseName ==
    /\ name_pc = "start"
    /\ name_once' = parse_event_name(event_name)
    /\ name_pc' = "once"
    /\ UNCHANGED <<event_name, name_twice, notName>>

\* the disambiguation re-applied to its own output
ReparseName ==
    /\ name_pc = "once"
    /\ name_twice' = parse_event_name(name_once)
    /\ name_pc' = "twice"
    /\ UNCHANGED <<event_name, name_once, notName>>

NameNext == ParseName \/ ReparseName

InitName == NameInit /\ DateIdle /\ FetchIdle /\ SchemaIdle /\ WebsiteIdle /\ CrawlIdle
SpecName == InitName /\ [][NameNext]_vars

InitDate == DateInit /\ NameIdle /\ FetchIdle /\ SchemaIdle /\ WebsiteIdle /\ CrawlIdle
SpecDate == InitDate /\ [][DateNext]_vars

InitFetch == FetchInit /\ NameIdle /\ DateIdle /\ SchemaIdle /\ WebsiteIdle /\ CrawlIdle
SpecFetch == InitFetch /\ [][FetchNext]_vars

InitSchema == SchemaInit /\ NameIdle /\ DateIdle /\ FetchIdle /\ WebsiteIdle /\ CrawlIdle
SpecSchema == InitSchema /\ [][SchemaNext]_vars

InitWebsite == WebsiteInit /\ NameIdle /\ DateIdle /\ FetchIdle /\ SchemaIdle /\ CrawlIdle
SpecWebsite == InitWebsite /\ [][WebsiteNext]_vars

InitCrawl ==
    CrawlInit /\ NameIdle /\ DateIdle /\ FetchIdle /\ SchemaIdle /\ WebsiteIdle
SpecCrawl == InitCrawl /\ [][CrawlNext]_vars

(***************************************************************************)
(* The claims.                                                             *)
(***************************************************************************)
\* C5: parse_event_name is idempotent: applied to its own output it yields
\* that output again.
C5_Idempotent == name_pc = "twice" => name_twice = name_once

\* A timestamp written exactly as YYYY-MM-DDTHH:MM:SS that names a real instant.
IsTimestamp(s) ==
    /\ s # NoneVal
    /\ Len(s) = 19
    /\ \A i \in 1..19 :
          IF i \in {5, 8} THEN s[i] = "-"
          ELSE IF i = 11 THEN s[i] = "T"
          ELSE IF i \in {14, 17} THEN s[i] = ":"
          ELSE s[i] \in Digits
    /\ StrptimeOk(s)

\* An input strptime does not parse: a missing value, or text off the format.
IsMalformed(s) == s = NoneVal \/ ~StrptimeOk(s)

\* C6: schematize_date returns the YYYY-MM-DD prefix of every valid
\* timestamp, returns the empty string for every malformed input (a missing
\* value included), and never raises.
C6_DateNeverRaises ==
    /\ date_pc # "raised"
    /\ (date_pc = "returned" /\ IsTimestamp(event_date))
          => schematized_date = SubSeq(event_date, 1, 10)
    /\ (date_pc = "returned" /\ IsMalformed(event_date)) => schematized_date = <<>>

Max(a, b) == IF a > b THEN a ELSE b

\* C1: when get_arlington_events returns its list, it has issued exactly
\* max(1, ceil(N/5)) GETs, at the offsets 0, 5, 10, ... in this order, and
\* the list is the server's N items in the server's order.
C1_PaginatedFetch ==
    (fetch_pc = "fetched" /\ fetch_result.kind = "list") =>
        /\ get_log = [k \in 1..Max(1, (server_count + 4) \div 5) |-> 5 * (k - 1)]
        /\ fetch_result.list = [i \in 1..server_count |-> i]

\* C1 witness: a total of 12 fetched with three requests.
C1_Witness ==
    /\ fetch_pc = "fetched"
    /\ fetch_result.kind = "list"
    /\ server_count = 12
    /\ get_log = <<0, 5, 10>>
    /\ Len(fetch_result.list) = 12

\* C2: when the first GET raises, the failure is logged as critical, no
\* events are yielded, and main completes without raising.
C2_FirstFailureNonFatal ==
    (get_log # <<>> /\ fetch_result.kind = "None") =>
        /\ critical_log = 1
        /\ fetch_result.list = <<>>
        /\ fetch_pc # "main_raised"

\* The item of the argument the k-th emitted record came from.
SourceOf(k) == event_items_arg[emitted_from[k]]
NoDirectWebsite(i) == event_items_arg[i].eventUrlText = <<>>

\* C4: of the items schematize_events has gone through when it returns,
\* those whose normalized name contains "Task Force" or "Forestry
\* Commission", or whose venue is "Earth Products Yard", contains "Library"
\* or is empty (an empty locationName included), are dropped, and every
\* other one is emitted exactly once, in input order.
C4_Dropped(event_item) ==
    \/ Contains(parse_event_name(event_item.eventName), TaskForce)
    \/ Contains(parse_event_name(event_item.eventName), ForestryCommission)
    \/ html_textraction(event_item.locationName) = EarthProductsYard
    \/ Contains(html_textraction(event_item.locationName), Library)
    \/ html_textraction(event_item.locationName) = <<>>
    \/ event_item.locationName = <<>>
C4_KeptPositions(n) ==
    LET Kept(i) == ~C4_Dropped(event_items_arg[i])
    IN SelectSeq([i \in 1..n |-> i], Kept)
C4_FilterRule ==
    schema_pc = "returned" => emitted_from = C4_KeptPositions(Len(event_items_arg))

\* C7: in every emitted record Event Cost is "0" when the item's
\* free-of-charge flag is set, else the digits of its cost description in
\* their order when that is not empty, else empty; it holds digits only.
C7_EventCost ==
    /\ Len(events) = Len(emitted_from)
    /\ \A k \in 1..Len(events) :
          LET cost == events[k]["Event Cost"]
              dsc == SourceOf(k).eventCostDsc
              OneOfTen(c) == c \in {"0", "1", "2", "3", "4", "5", "6", "7", "8", "9"}
          IN /\ SourceOf(k).freeOfChargeInd => cost = <<"0">>
             /\ (~SourceOf(k).freeOfChargeInd /\ dsc # <<>>) => cost = SelectSeq(dsc, OneOfTen)
             /\ (~SourceOf(k).freeOfChargeInd /\ dsc = <<>>) => cost = <<>>
             /\ \A j \in 1..Len(cost) : OneOfTen(cost[j])

\* C7 witness: a returned run that emitted a free event with a priced
\* description, as "0", and a priced event, as its digits.
C7_Witness ==
    /\ schema_pc = "returned"
    /\ Len(events) = 2
    /\ SourceOf(1).freeOfChargeInd /\ SourceOf(1).eventCostDsc # <<>>
    /\ events[1]["Event Cost"] = <<"0">>
    /\ ~SourceOf(2).freeOfChargeInd
    /\ events[2]["Event Cost"] = <<"5", "1", "0">>

\* The normalized date the specification gives a missing value: ''.
C8_Normalized(d) == IF d = NoneVal THEN <<>> ELSE schematize_date(d, pads_year)
C8_Matches(k) ==
    /\ C8_Normalized(search_items[k].eventStartDate) = target_start
    /\ C8_Normalized(search_items[k].eventEndDate) = target_end

\* C8: a call of get_event_website issues one search request and results in
\* the website of the first returned item whose normalized start and end
\* dates both equal the target's, or in None when no item matches both.
C8_FirstExactMatch ==
    website_pc # "start" =>
        /\ website_gets = 1
        /\ website_pc = "returned"
        /\ website_result =
              IF \E k \in 1..Len(search_items) : C8_Matches(k)
              THEN search_items[CHOOSE k \in 1..Len(search_items) :
                                  C8_Matches(k) /\ \A j \in 1..(k - 1) : ~C8_Matches(j)].eventUrlText
              ELSE NoneVal

\* C10: every backfill request comes from an item that passed the name and
\* the venue filter and has no website of its own, and the requests are, in
\* order, the emitted records that had no website of their own.
C10_BackfillOrder ==
    /\ \A k \in 1..Len(search_from) :
          LET event_item == event_items_arg[search_from[k]]
          IN /\ event_item.eventUrlText = <<>>
             /\ ~NameFiltered(parse_event_name(event_item.eventName))
             /\ ~VenueFiltered(html_textraction(event_item.locationName))
    /\ search_from = SelectSeq(emitted_from, NoDirectWebsite)
    /\ Len(search_log) = Len(search_from)

\* The positions of the index page's anchors that link a calendar-detail
\* page, in index order.
IsCalendarLink(i) ==
    index_anchors[i].href # NoneVal /\ Contains(index_anchors[i].href, CalendarAspx)
CalendarPositions == SelectSeq([i \in 1..Len(index_anchors) |-> i], IsCalendarLink)
PageAt(i) == index_anchors[i].page

\* A malformed detail page: no <th> elements, or no <p> elements.
MalformedPage(pg) == pg.status = 200 /\ (pg.ths = <<>> \/ pg.paras = <<>>)
\* A well-formed one: both are there, and every keyword paragraph has one
\* label and, under "www", one link with a target.
WellFormedPage(pg) ==
    /\ pg.status = 200 /\ pg.ths # <<>> /\ pg.paras # <<>>
    /\ \A j \in 1..Len(pg.paras) :
          LET para == pg.paras[j]
              labels == FindAll(para, "strong")
              links == FindAll(para, "a")
          IN HasKeyword(para) =>
                /\ Len(labels) = 1
                /\ BeforeLastColon(labels[1].text) = <<"w", "w", "w">> =>
                      (Len(links) = 1 /\ links[1].href # NoneVal)
OneMalformedAmongWellFormed ==
    /\ Cardinality({ k \in 1..Len(CalendarPositions) :
                        MalformedPage(PageAt(CalendarPositions[k])) }) = 1
    /\ \A k \in 1..Len(CalendarPositions) :
          MalformedPage(PageAt(CalendarPositions[k]))
              \/ WellFormedPage(PageAt(CalendarPositions[k]))
IsWellFormedAt(i) == WellFormedPage(PageAt(i))

\* C3: a crawl whose index links N detail pages, one of them malformed and
\* the others well-formed, never aborts; it requests all N pages in index
\* order and collects N-1 records, those of the well-formed pages in order.
C3_MalformedSkipped ==
    OneMalformedAmongWellFormed =>
        /\ crawl_pc # "raised"
        /\ crawl_pc = "records_done" =>
              /\ visited_from = CalendarPositions
              /\ Len(request_log) = Len(CalendarPositions)
              /\ record_from = SelectSeq(CalendarPositions, IsWellFormedAt)
              /\ Len(records) = Len(CalendarPositions) - 1

\* C3 witness: three detail pages, the second without <th>, two records.
C3_Witness ==
    /\ crawl_pc = "records_done"
    /\ Len(CalendarPositions) = 3
    /\ OneMalformedAmongWellFormed
    /\ PageAt(2).ths = <<>> /\ PageAt(2).paras # <<>>
    /\ record_from = <<1, 3>>
    /\ Len(records) = 2

\* A page whose extraction reaches a keyword paragraph with more than one
\* <strong> label.
AmbiguousPage(pg) ==
    /\ pg.status = 200 /\ pg.ths # <<>> /\ pg.paras # <<>>
    /\ \E j \in 1..Len(pg.paras) :
          HasKeyword(pg.paras[j]) /\ Len(FindAll(pg.paras[j], "strong")) > 1

\* C9: the extraction of a page with an ambiguous keyword paragraph raises:
\* the crawl ends raised at that page, and no record of that page, so no
\* value of that paragraph, is stored.
C9_AmbiguousLabelRaises ==
    \A k \in 1..Len(visited_from) :
        AmbiguousPage(PageAt(visited_from[k])) =>
            /\ crawl_pc = "raised"
            /\ k = Len(visited_from)
            /\ \A r \in 1..Len(record_from) : record_from[r] # visited_from[k]
            /\ Len(records) = Len(record_from)

\* C9 witness: a record collected, then a page with two labels in one
\* keyword paragraph, at which the crawl raised.
C9_Witness ==
    /\ crawl_pc = "raised"
    /\ Len(records) = 1
    /\ Len(visited_from) = 2
    /\ AmbiguousPage(PageAt(visited_from[2]))

====
